---------------------------- MODULE Spec2Model ----------------------------
(***************************************************************************)
(* hIPPYlib MultiVector (hippylib/algorithms/cpp_multivector/              *)
(* multivector.cpp): an ordered collection  mv  of shared pointers to      *)
(* dolfin GenericVector objects, with batched linear algebra on them and   *)
(* a pybind11 binding.                                                     *)
(*                                                                         *)
(* Vector objects live in a heap keyed by object identity.  A MultiVector  *)
(* is the sequence of the identities its slots point to, so aliasing       *)
(* (a caller's handle into a slot, y being self) is visible.  The          *)
(* GenericVector itself is opaque to the code; it is modelled as a vector  *)
(* of a one-entry layout over the integers, with exact arithmetic inside   *)
(* the window Scalar.                                                      *)
(***************************************************************************)
EXTENDS Integers, Sequences, FiniteSets

\* Largest nvec passed to a constructor or to setSizeFromVector.
MaxN == 2
\* Number of vector objects the allocator can hold besides the caller's own.
MaxObj == 4

MVs == {"A", "B"}
Pool == 1 .. MaxObj
\* The caller's own vector (a template, a y, a reduce target): always alive.
ExtVec == MaxObj + 1
Objs == Pool \cup {ExtVec}
\* Window of vector entries and of coefficients.
Scalar == -1 .. 1
Sizes == 0 .. MaxN

VARIABLES
    mv,      \* mv[X]: MultiVector X's std::vector of shared_ptr (object ids)
    store,   \* store[X]: X.mv owns a buffer, i.e. X.mv.begin() is not null
    heap,    \* heap[o]: value of the live vector object o
    hnd,     \* the shared_ptr the caller got from operator[] ({} when none)
    last,    \* the call that produced this state
    out,     \* output buffer of the last dot / norm call
    calls    \* inner-product evaluations of the last dot call, in order

vars == <<mv, store, heap, hnd, last, out, calls>>

--------------------------------------------------------------------------
(* The vector capability (dolfin::GenericVector), on a value.              *)

VecCopy(x) == x
VecZero(x) == 0
VecAxpy(y, a, x) == y + a * x
VecScale(y, a) == y * a
VecInner(x, y) == x * y
VecNorm(x) == IF x < 0 THEN -x ELSE x

--------------------------------------------------------------------------
(* Heap and ownership.                                                     *)

Range(s) == {s[i] : i \in 1 .. Len(s)}
Slots(m) == UNION {Range(m[X]) : X \in MVs}
\* Objects some shared_ptr still refers to.
Refs(m, hd) == Slots(m) \cup hd \cup {ExtVec}
\* Releasing the last shared_ptr to an object destroys it.
Release(h, m, hd) == [o \in Refs(m, hd) |-> h[o]]

MinOf(S) == CHOOSE x \in S : \A y \in S : x <= y
RECURSIVE PickFresh(_, _)
\* n objects that did not exist before the call.
PickFresh(free, n) ==
    IF n = 0 THEN <<>>
    ELSE LET o == MinOf(free) IN <<o>> \o PickFresh(free \ {o}, n - 1)
NewObjs(h, n) == PickFresh(Pool \ DOMAIN h, n)
CanAlloc(h, n) == Cardinality(Pool \ DOMAIN h) >= n

InWindow(h) == \A o \in DOMAIN h : h[o] \in Scalar

\* What is kept of a call: the operation, the MultiVector it is called on, the
\* other MultiVector, the vector argument, an integer argument (nvec, k, or the
\* length of the coefficient array), the coefficients, the entry point
\* ("core": the C++ method, "binding": the pybind11 adapter) and the outcome.
Call(op, self, other, v, n, arr, via, res) ==
    [op |-> op, self |-> self, other |-> other, v |-> v, n |-> n,
     arr |-> arr, via |-> via, res |-> res]

Running == last.res # "abort"

\* The program's start: two default-constructed MultiVectors and the
\* caller's own vector.
Init ==
    /\ mv = [X \in MVs |-> <<>>]
    /\ store = [X \in MVs |-> FALSE]
    /\ \E x \in Scalar : heap = [o \in {ExtVec} |-> x]
    /\ hnd = {}
    /\ last = Call("init", "A", "A", {}, 0, <<>>, "core", "ok")
    /\ out = <<>>
    /\ calls = <<>>

Iota(lo, n) == [i \in 1 .. n |-> lo + i - 1]

\* Any state the calls below lead to from Init, up to the names of the
\* objects: A and B of any sizes with any contents and no object in common
\* (constructed one after the other, filled through handles), the caller's
\* handle on nothing, on a slot, or on a vector that setSizeFromVector has
\* since dropped from its MultiVector.
InitAny ==
    /\ \E nA \in Sizes, nB \in Sizes, k \in 0 .. 1 :
        /\ nA + nB + k <= MaxObj
        /\ mv = [X \in MVs |-> IF X = "A" THEN Iota(1, nA) ELSE Iota(nA + 1, nB)]
        /\ heap \in [(1 .. nA + nB + k) \cup {ExtVec} -> Scalar]
        /\ IF k = 1 THEN hnd = {nA + nB + 1}
           ELSE hnd \in {{}} \cup {{o} : o \in 1 .. nA + nB}
    /\ store \in [MVs -> BOOLEAN]
    /\ \A X \in MVs : Len(mv[X]) > 0 => store[X]
    /\ last = Call("init", "A", "A", {}, 0, <<>>, "core", "ok")
    /\ out = <<>>
    /\ calls = <<>>

--------------------------------------------------------------------------
(* Construction, copy, resize.                                             *)

\* A variant without vj->zero().
PlainCopies(h, v, ids) ==
    [o \in DOMAIN h \cup Range(ids) |->
        IF o \in Range(ids) THEN VecCopy(h[v]) ELSE h[o]]
\* for(auto&& vj : mv) { vj = v.copy(); vj->zero(); } with the new objects ids
ZeroCopies(h, v, ids) ==
    [o \in DOMAIN h \cup Range(ids) |->
        IF o \in Range(ids) THEN VecZero(VecCopy(h[v])) ELSE h[o]]

\* A variant that copies the shared pointers: mv[i] = orig.mv[i].
ShareSlots(h, src) == src
\* The objects mv[i] = orig.mv[i]->copy() puts in the new MultiVector's slots.
CopySlots(h, src) == NewObjs(h, Len(src))

\* The heap once slot i of ids holds the copy of slot i of src.
CopyValues(h, src, ids) ==
    [o \in DOMAIN h \cup Range(ids) |->
        IF o \in Range(ids) /\ o \notin DOMAIN h
        THEN VecCopy(h[src[CHOOSE i \in 1 .. Len(ids) : ids[i] = o]])
        ELSE h[o]]

\* The caller's vectors: its own, and the handle it holds.
CallerVecs == {ExtVec} \cup hnd

NoOutput == out' = <<>> /\ calls' = <<>>

DefaultConstruct(X) ==
    /\ Running
    /\ mv' = [mv EXCEPT ![X] = <<>>]
    /\ store' = [store EXCEPT ![X] = FALSE]
    /\ heap' = Release(heap, mv', hnd)
    /\ last' = Call("MultiVector", X, X, {}, 0, <<>>, "core", "ok")
    /\ UNCHANGED hnd
    /\ NoOutput

Construct(X, v, n) ==
    /\ Running
    /\ CanAlloc(heap, n)
    /\ LET ids == NewObjs(heap, n) IN
        /\ mv' = [mv EXCEPT ![X] = ids]
        /\ store' = [store EXCEPT ![X] = (n > 0)]
        /\ heap' = Release(ZeroCopies(heap, v, ids), mv', hnd)
    /\ last' = Call("MultiVector_v_n", X, X, {v}, n, <<>>, "core", "ok")
    /\ UNCHANGED hnd
    /\ NoOutput

CopyConstruct(X, Y) ==
    /\ Running
    /\ X # Y
    /\ CanAlloc(heap, Len(mv[Y]))
    /\ LET ids == CopySlots(heap, mv[Y]) IN
        /\ mv' = [mv EXCEPT ![X] = ids]
        /\ store' = [store EXCEPT ![X] = (Len(mv[Y]) > 0)]
        /\ heap' = Release(CopyValues(heap, mv[Y], ids), mv', hnd)
    /\ last' = Call("MultiVector_copy", X, Y, {}, 0, <<>>, "core", "ok")
    /\ UNCHANGED hnd
    /\ NoOutput

\* mv.resize(nvec) followed by the loop that replaces every slot.
SetSizeSlots(h, old, n) == NewObjs(h, n)

setSizeFromVector(X, v, n) ==
    /\ Running
    /\ CanAlloc(heap, n)
    /\ LET ids == SetSizeSlots(heap, mv[X], n) IN
        /\ mv' = [mv EXCEPT ![X] = ids]
        /\ store' = [store EXCEPT ![X] = (store[X] \/ n > 0)]
        /\ heap' = Release(ZeroCopies(heap, v, ids), mv', hnd)
    /\ last' = Call("setSizeFromVector", X, X, {v}, n, <<>>, "core", "ok")
    /\ UNCHANGED hnd
    /\ NoOutput

nvec(X) == Len(mv[X])

--------------------------------------------------------------------------
(* Indexed access and the caller's handle.                                 *)

\* operator[](i): the shared_ptr stored in slot i (0-based).
Index(slots, i) == slots[i + 1]

GetItem(X, i) ==
    /\ Running
    /\ i < nvec(X)
    /\ hnd' = {Index(mv[X], i)}
    /\ heap' = Release(heap, mv, hnd')
    /\ last' = Call("getitem", X, X, hnd', i, <<>>, "core", "ok")
    /\ UNCHANGED <<mv, store>>
    /\ NoOutput

\* The caller assigns to the vector behind its handle.
HandleWrite(c) ==
    /\ Running
    /\ hnd # {}
    /\ \E o \in hnd :
        /\ heap[o] # c
        /\ heap' = [heap EXCEPT ![o] = c]
    /\ last' = Call("handle_write", "A", "A", hnd, 0, <<c>>, "core", "ok")
    /\ UNCHANGED <<mv, store, hnd>>
    /\ NoOutput

DropHandle ==
    /\ Running
    /\ hnd # {}
    /\ hnd' = {}
    /\ heap' = Release(heap, mv, hnd')
    /\ last' = Call("handle_drop", "A", "A", {}, 0, <<>>, "core", "ok")
    /\ UNCHANGED <<mv, store>>
    /\ NoOutput

--------------------------------------------------------------------------
(* Batched arithmetic.  Each loop visits the slots in order and reads its  *)
(* operands from the heap as it stands at that iteration.                  *)

RECURSIVE AxpyLoop(_, _, _, _, _)
AxpyLoop(h, slots, a, y, i) ==
    IF i > Len(slots) THEN h
    ELSE AxpyLoop([h EXCEPT ![slots[i]] = VecAxpy(h[slots[i]], a, h[y])],
                  slots, a, y, i + 1)
\* A variant that reads y once, before the loop.
MVAxpySnapshot(h, slots, a, y) ==
    [o \in DOMAIN h |->
        IF o \in Range(slots) THEN VecAxpy(h[o], a, h[y]) ELSE h[o]]
\* axpy(double a, const GenericVector& y)
MVAxpy(h, slots, a, y) == AxpyLoop(h, slots, a, y, 1)

RECURSIVE AxpyArrLoop(_, _, _, _, _)
AxpyArrLoop(h, slots, data, yslots, i) ==
    IF i > Len(slots) THEN h
    ELSE AxpyArrLoop(
            [h EXCEPT ![slots[i]] = VecAxpy(h[slots[i]], data[i], h[yslots[i]])],
            slots, data, yslots, i + 1)
\* The loop of axpy(const Array<double>& a, const MultiVector& y)
MVAxpyArr(h, slots, data, yslots) == AxpyArrLoop(h, slots, data, yslots, 1)

RECURSIVE ReduceLoop(_, _, _, _, _)
ReduceLoop(h, slots, v, alpha, i) ==
    IF i > Len(slots) THEN h
    ELSE ReduceLoop([h EXCEPT ![v] = VecAxpy(h[v], alpha[i], h[slots[i]])],
                    slots, v, alpha, i + 1)
\* A variant that does not advance the coefficient pointer.
MVReduceNoAdvance(h, slots, v, alpha) ==
    ReduceLoop(h, slots, v, [i \in 1 .. Len(alpha) |-> alpha[1]], 1)
\* reduce(GenericVector& v, const Array<double>& alpha)
MVReduce(h, slots, v, alpha) == ReduceLoop(h, slots, v, alpha, 1)

RECURSIVE ScaleLoop(_, _, _, _)
ScaleLoop(h, slots, data, i) ==
    IF i > Len(slots) THEN h
    ELSE ScaleLoop([h EXCEPT ![slots[i]] = VecScale(h[slots[i]], data[i])],
                   slots, data, i + 1)
\* scale(const Array<double>& a)
MVScaleArr(h, slots, data) == ScaleLoop(h, slots, data, 1)

\* scale(int k, double a)
MVScaleK(h, slots, k, a) ==
    [h EXCEPT ![Index(slots, k)] = VecScale(h[Index(slots, k)], a)]

\* zero()
MVZero(h, slots) ==
    [o \in DOMAIN h |-> IF o \in Range(slots) THEN VecZero(h[o]) ELSE h[o]]

\* dolfin::Array<double>(N, ptr) wraps ptr and believes N; a.size() of an Array
\* the caller built itself is the length of its data.
ArraySize(via, len, n) == IF via = "binding" THEN n ELSE len

\* What  *(data++)  and  a[i]  yield over the first n positions of an array
\* of length len: the array's entries where it has them, and whatever the
\* memory behind it holds where it does not.
Reads(n) == [1 .. n -> Scalar]
Entries == {"core", "binding"}
\* Lengths of the coefficient array a caller passes to a MultiVector of n
\* vectors: one short, exact, one long.
Lens(n) == {l \in 0 .. MaxN + 1 : n - 1 <= l /\ l <= n + 1}

axpy(X, a, y) ==
    /\ Running
    /\ LET h == MVAxpy(heap, mv[X], a, y) IN
        /\ InWindow(h)
        /\ heap' = h
    /\ last' = Call("axpy", X, X, {y}, 0, <<a>>, "core", "ok")
    /\ UNCHANGED <<mv, store, hnd>>
    /\ NoOutput

\* assert(a.size() == n); assert(y.nvec() == n);
AxpyArrAsserts(asize, ynvec, n) == asize = n /\ ynvec = n

\* Reading past the end of the array either yields what the memory holds
\* or faults after the iterations done so far: k of them.
Faults(len, n) == {k \in 0 .. n - 1 : len <= k}

axpy_arr(X, via, len, data, Y) ==
    /\ Running
    /\ IF AxpyArrAsserts(ArraySize(via, len, nvec(X)), nvec(Y), nvec(X))
       THEN \/ /\ LET h == MVAxpyArr(heap, mv[X], data, mv[Y]) IN
                   /\ InWindow(h)
                   /\ heap' = h
               /\ last' = Call("axpy_arr", X, Y, {}, len, data, via, "ok")
            \/ \E k \in Faults(len, nvec(X)) :
                /\ LET h == MVAxpyArr(heap, SubSeq(mv[X], 1, k), data, mv[Y]) IN
                    /\ InWindow(h)
                    /\ heap' = h
                /\ last' = Call("axpy_arr", X, Y, {}, len, data, via, "abort")
       ELSE /\ heap' = heap
            /\ last' = Call("axpy_arr", X, Y, {}, len, data, via, "abort")
    /\ UNCHANGED <<mv, store, hnd>>
    /\ NoOutput

scale_k(X, k, a) ==
    /\ Running
    /\ k < nvec(X)
    /\ LET h == MVScaleK(heap, mv[X], k, a) IN
        /\ InWindow(h)
        /\ heap' = h
    /\ last' = Call("scale_k", X, X, {}, k, <<a>>, "core", "ok")
    /\ UNCHANGED <<mv, store, hnd>>
    /\ NoOutput

scale_arr(X, via, len, data) ==
    /\ Running
    /\ \/ /\ LET h == MVScaleArr(heap, mv[X], data) IN
              /\ InWindow(h)
              /\ heap' = h
          /\ last' = Call("scale_arr", X, X, {}, len, data, via, "ok")
       \/ \E k \in Faults(len, nvec(X)) :
           /\ LET h == MVScaleArr(heap, SubSeq(mv[X], 1, k), data) IN
               /\ InWindow(h)
               /\ heap' = h
           /\ last' = Call("scale_arr", X, X, {}, len, data, via, "abort")
    /\ UNCHANGED <<mv, store, hnd>>
    /\ NoOutput

zero(X) ==
    /\ Running
    /\ heap' = MVZero(heap, mv[X])
    /\ last' = Call("zero", X, X, {}, 0, <<>>, "core", "ok")
    /\ UNCHANGED <<mv, store, hnd>>
    /\ NoOutput

\* alpha has the length N the call requires.
reduce(X, v, alpha) ==
    /\ Running
    /\ LET h == MVReduce(heap, mv[X], v, alpha) IN
        /\ InWindow(h)
        /\ heap' = h
    /\ last' = Call("reduce", X, X, {v}, 0, alpha, "core", "ok")
    /\ UNCHANGED <<mv, store, hnd>>
    /\ NoOutput

\* A variant that moves other's contents in and leaves other empty.
SwapSlotsMove(m, X, Y) == [m EXCEPT ![X] = m[Y], ![Y] = <<>>]
\* A variant that assigns one way only.
SwapSlotsAssign(m, X, Y) == [m EXCEPT ![X] = m[Y]]
\* mv.swap(other.mv): the two std::vectors exchange their buffers.
SwapSlots(m, X, Y) == [m EXCEPT ![X] = m[Y], ![Y] = m[X]]

swap(X, Y) ==
    /\ Running
    /\ mv' = SwapSlots(mv, X, Y)
    /\ store' = [store EXCEPT ![X] = store[Y], ![Y] = store[X]]
    /\ last' = Call("swap", X, Y, {}, 0, <<>>, "core", "ok")
    /\ UNCHANGED <<heap, hnd>>
    /\ NoOutput

--------------------------------------------------------------------------
(* Inner products and norms.  A buffer entry is <<>> until it is written   *)
(* and <<x>> once x has been stored in it; positions are 0-based as in     *)
(* the code.                                                               *)

Buffer(n) == [p \in 1 .. n |-> <<>>]
Store(m, p, x) == [m EXCEPT ![p + 1] = <<x>>]
\* mv[i]->inner(*(w[j])), noted in the log of evaluations
Eval(st, h, si, i, sj, j) ==
    [val |-> VecInner(h[Index(si, i)], h[Index(sj, j)]),
     c |-> Append(st.c, <<i, j>>)]

RECURSIVE DotRow(_, _, _, _, _, _)
DotRow(h, s1, s2, st, i, j) ==
    IF j >= Len(s2) THEN st
    ELSE LET e == Eval(st, h, s1, i, s2, j)
         IN DotRow(h, s1, s2,
                [m |-> Store(st.m, st.p, e.val), c |-> e.c, p |-> st.p + 1],
                i, j + 1)

RECURSIVE DotRows(_, _, _, _, _)
DotRows(h, s1, s2, st, i) ==
    IF i >= Len(s1) THEN st
    ELSE DotRows(h, s1, s2, DotRow(h, s1, s2, st, i, 0), i + 1)

\* The else branch of dot(const MultiVector& other, Array<double>& m)
DotGeneral(h, s1, s2, m) ==
    LET st == DotRows(h, s1, s2, [m |-> m, c |-> <<>>, p |-> 0], 0)
    IN [m |-> st.m, c |-> st.c]

RECURSIVE DotSelfInner(_, _, _, _, _)
DotSelfInner(h, slots, st, i, j) ==
    IF j >= i THEN st
    ELSE LET s == Len(slots)
             e == Eval(st, h, slots, i, slots, j)
         IN DotSelfInner(h, slots,
                [m |-> Store(Store(st.m, j + s * i, e.val), i + s * j, e.val),
                 c |-> e.c],
                i, j + 1)

RECURSIVE DotSelfOuter(_, _, _, _)
DotSelfOuter(h, slots, st, i) ==
    IF i >= Len(slots) THEN st
    ELSE LET s == Len(slots)
             e == Eval(st, h, slots, i, slots, i)
         IN DotSelfOuter(h, slots,
                DotSelfInner(h, slots,
                    [m |-> Store(st.m, i + s * i, e.val), c |-> e.c], i, 0),
                i + 1)

\* A variant that runs the full double loop.
DotSelfFull(h, slots, m) == DotGeneral(h, slots, slots, m)
\* dot_self(Array<double>& m)
DotSelf(h, slots, m) == DotSelfOuter(h, slots, [m |-> m, c |-> <<>>], 0)

\* A variant that compares sizes.
SameSize(X, Y) == nvec(X) = nvec(Y)
\* other.mv.begin() == mv.begin(): the same std::vector, or two that own no
\* buffer; two distinct vectors never own the same buffer.
SameBegin(X, Y) == X = Y \/ (~store[X] /\ ~store[Y])

\* dot(const MultiVector& other, Array<double>& m)
Dot(h, X, Y, m) ==
    IF SameBegin(X, Y) THEN DotSelf(h, mv[X], m) ELSE DotGeneral(h, mv[X], mv[Y], m)

RECURSIVE DotVecLoop(_, _, _, _, _)
DotVecLoop(h, slots, v, m, i) ==
    IF i >= Len(slots) THEN m
    ELSE DotVecLoop(h, slots, v, Store(m, i, VecInner(h[Index(slots, i)], h[v])),
                    i + 1)
\* dot(const GenericVector& v, Array<double>& m)
DotVec(h, slots, v, m) == DotVecLoop(h, slots, v, m, 0)

RECURSIVE NormLoop(_, _, _, _)
NormLoop(h, slots, m, i) ==
    IF i >= Len(slots) THEN m
    ELSE NormLoop(h, slots, Store(m, i, VecNorm(h[Index(slots, i)])), i + 1)
\* norm_all(norm_type, Array<double>& norms)
NormAll(h, slots, m) == NormLoop(h, slots, m, 0)

Quiet == UNCHANGED <<mv, store, heap, hnd>>

\* The binding's dot(v): a buffer of nvec() entries.
dot_v(X, v) ==
    /\ Running
    /\ out' = DotVec(heap, mv[X], v, Buffer(nvec(X)))
    /\ calls' = <<>>
    /\ last' = Call("dot_v", X, X, {v}, 0, <<>>, "binding", "ok")
    /\ Quiet

\* The binding's dot(other): a buffer of size1*size2 entries.
dot_mv(X, Y) ==
    /\ Running
    /\ LET r == Dot(heap, X, Y, Buffer(nvec(X) * nvec(Y))) IN
        /\ out' = r.m
        /\ calls' = r.c
    /\ last' = Call("dot_mv", X, Y, {}, 0, <<>>, "binding",
                    IF SameBegin(X, Y) THEN "dot_self" ELSE "general")
    /\ Quiet

\* dot_self called on its own, with a buffer of N*N entries.
dot_self(X) ==
    /\ Running
    /\ LET r == DotSelf(heap, mv[X], Buffer(nvec(X) * nvec(X))) IN
        /\ out' = r.m
        /\ calls' = r.c
    /\ last' = Call("dot_self", X, X, {}, 0, <<>>, "core", "ok")
    /\ Quiet

\* The binding's norm(norm_type): a buffer of nvec() entries.
norm(X) ==
    /\ Running
    /\ out' = NormAll(heap, mv[X], Buffer(nvec(X)))
    /\ calls' = <<>>
    /\ last' = Call("norm", X, X, {}, 0, <<>>, "binding", "ok")
    /\ Quiet

--------------------------------------------------------------------------

Next ==
    \/ \E X \in MVs : DefaultConstruct(X)
    \/ \E X \in MVs, v \in CallerVecs, n \in Sizes : Construct(X, v, n)
    \/ \E X \in MVs, Y \in MVs : CopyConstruct(X, Y)
    \/ \E X \in MVs, v \in CallerVecs, n \in Sizes : setSizeFromVector(X, v, n)
    \/ \E X \in MVs, Y \in MVs : swap(X, Y)
    \/ \E X \in MVs, i \in 0 .. MaxN : GetItem(X, i)
    \/ \E c \in Scalar : HandleWrite(c)
    \/ DropHandle
    \/ \E X \in MVs, v \in CallerVecs : dot_v(X, v)
    \/ \E X \in MVs, Y \in MVs : dot_mv(X, Y)
    \/ \E X \in MVs : dot_self(X)
    \/ \E X \in MVs : norm(X)
    \/ \E X \in MVs, v \in CallerVecs :
          \E alpha \in Reads(nvec(X)) : reduce(X, v, alpha)
    \/ \E X \in MVs, a \in Scalar, y \in CallerVecs : axpy(X, a, y)
    \/ \E X \in MVs, k \in 0 .. MaxN, a \in Scalar : scale_k(X, k, a)
    \/ \E X \in MVs : zero(X)
    \/ \E X \in MVs, via \in Entries :
          \E len \in Lens(nvec(X)), data \in Reads(nvec(X)) :
              scale_arr(X, via, len, data)
    \/ \E X \in MVs, Y \in MVs, via \in Entries :
          \E len \in Lens(nvec(X)), data \in Reads(nvec(X)) :
              axpy_arr(X, via, len, data, Y)

\* The program: any calls, in any order, from the start.
Spec == Init /\ [][Next]_vars

--------------------------------------------------------------------------
(* One call from any state.  No call reads  last, out  or  calls, so what  *)
(* a call does from a state of Spec it does from the state of InitAny      *)
(* that has the same MultiVectors, heap and handle.                        *)

Once == last.op = "init"

\* Coefficient arrays with one value throughout.
Uniform(n) == {[i \in 1 .. n |-> c] : c \in Scalar}

\* Every operation.
StepNext ==
    \/ Once /\ \E X \in MVs : DefaultConstruct(X)
    \/ Once /\ \E X \in MVs, v \in CallerVecs, n \in Sizes : Construct(X, v, n)
    \/ Once /\ \E X \in MVs, Y \in MVs : CopyConstruct(X, Y)
    \/ Once /\ \E X \in MVs, v \in CallerVecs, n \in Sizes :
                  setSizeFromVector(X, v, n)
    \/ Once /\ \E X \in MVs, Y \in MVs : swap(X, Y)
    \/ Once /\ \E X \in MVs, i \in 0 .. MaxN : GetItem(X, i)
    \/ Once /\ \E c \in Scalar : HandleWrite(c)
    \/ Once /\ DropHandle
    \/ Once /\ \E X \in MVs, v \in CallerVecs : dot_v(X, v)
    \/ Once /\ \E X \in MVs, Y \in MVs : dot_mv(X, Y)
    \/ Once /\ \E X \in MVs : dot_self(X)
    \/ Once /\ \E X \in MVs : norm(X)
    \/ Once /\ \E X \in MVs, v \in CallerVecs :
                  \E alpha \in Uniform(nvec(X)) : reduce(X, v, alpha)
    \/ Once /\ \E X \in MVs, a \in Scalar, y \in CallerVecs : axpy(X, a, y)
    \/ Once /\ \E X \in MVs, k \in 0 .. MaxN, a \in Scalar : scale_k(X, k, a)
    \/ Once /\ \E X \in MVs : zero(X)
    \/ Once /\ \E X \in MVs, via \in Entries :
                  \E len \in Lens(nvec(X)), data \in Uniform(nvec(X)) :
                      scale_arr(X, via, len, data)
    \/ Once /\ \E X \in MVs, Y \in MVs, via \in Entries :
                  \E len \in Lens(nvec(X)), data \in Uniform(nvec(X)) :
                      axpy_arr(X, via, len, data, Y)

SpecStep == InitAny /\ [][StepNext]_vars

\* InitAny with B default-constructed.
InitOne == InitAny /\ mv["B"] = <<>> /\ ~store["B"]
\* InitAny with no handle held.
InitPair == InitAny /\ hnd = {}
\* InitOne with no handle held.
InitCopy == InitOne /\ hnd = {}

\* The arithmetic on one MultiVector, with every coefficient array.
ArithNext ==
    \/ Once /\ \E X \in MVs, v \in CallerVecs :
                  \E alpha \in Reads(nvec(X)) : reduce(X, v, alpha)
    \/ Once /\ \E X \in MVs, a \in Scalar, y \in CallerVecs : axpy(X, a, y)
    \/ Once /\ \E X \in MVs, k \in 0 .. MaxN, a \in Scalar : scale_k(X, k, a)
    \/ Once /\ \E X \in MVs : zero(X)
    \/ Once /\ \E X \in MVs, via \in Entries :
                  \E len \in Lens(nvec(X)), data \in Reads(nvec(X)) :
                      scale_arr(X, via, len, data)

SpecArith == InitOne /\ [][ArithNext]_vars

\* Per-slice axpy between two MultiVectors, with every coefficient array.
PairNext ==
    Once /\ \E X \in MVs, Y \in MVs, via \in Entries :
                \E len \in Lens(nvec(X)), data \in Reads(nvec(X)) :
                    axpy_arr(X, via, len, data, Y)

SpecPair == InitPair /\ [][PairNext]_vars

\* The inner products and norms.
DotNext ==
    \/ Once /\ \E X \in MVs, v \in CallerVecs : dot_v(X, v)
    \/ Once /\ \E X \in MVs, Y \in MVs : dot_mv(X, Y)
    \/ Once /\ \E X \in MVs : dot_self(X)
    \/ Once /\ \E X \in MVs : norm(X)

SpecDot == InitPair /\ [][DotNext]_vars

\* A copy construction, then a handle taken or not, then one mutation of
\* the copy or of the original.
Copied == last.op = "MultiVector_copy"
AfterCopy == last.op \in {"MultiVector_copy", "getitem"}
CopyNext ==
    \/ Once /\ \E X \in MVs, Y \in MVs : CopyConstruct(X, Y)
    \/ Copied /\ \E X \in MVs, i \in 0 .. MaxN : GetItem(X, i)
    \/ AfterCopy /\ \E c \in Scalar : HandleWrite(c)
    \/ AfterCopy /\ \E X \in MVs, a \in Scalar, y \in CallerVecs : axpy(X, a, y)
    \/ AfterCopy /\ \E X \in MVs, Y \in MVs, via \in Entries :
                  \E len \in Lens(nvec(X)), data \in Uniform(nvec(X)) :
                      axpy_arr(X, via, len, data, Y)
    \/ AfterCopy /\ \E X \in MVs, k \in 0 .. MaxN, a \in Scalar : scale_k(X, k, a)
    \/ AfterCopy /\ \E X \in MVs, via \in Entries :
                  \E len \in Lens(nvec(X)), data \in Uniform(nvec(X)) :
                      scale_arr(X, via, len, data)
    \/ AfterCopy /\ \E X \in MVs : zero(X)
    \/ AfterCopy /\ \E X \in MVs, v \in CallerVecs, n \in Sizes :
                  setSizeFromVector(X, v, n)

SpecCopy == InitCopy /\ [][CopyNext]_vars

--------------------------------------------------------------------------
(* Properties.  A step is recognised by the call it records in  last'.     *)

Self == last'.self
Other == last'.other
IsCall(op) == last'.op = op
OldVals(X) == [i \in 1 .. Len(mv[X]) |-> heap[mv[X][i]]]
NewVals(X) == [i \in 1 .. Len(mv'[X]) |-> heap'[mv'[X][i]]]
\* MultiVector X is, after the step, what it was before: same objects in the
\* same slots, each with the value it had.
Untouched(X) == mv'[X] = mv[X] /\ NewVals(X) = OldVals(X)
Pos(slots, o) == CHOOSE k \in 1 .. Len(slots) : slots[k] = o

\* C1: scale(a[]) with a.size() different from nvec(), called directly or
\* through the binding, raises SizeMismatch and mutates no slot.
C1_SizeMismatchRaised ==
    [][IsCall("scale_arr") /\ last'.n # nvec(Self)
        => last'.res = "SizeMismatch" /\ Untouched(Self)]_vars

\* C2: axpy(a[], y) fails without touching a slot when a.size() or y.nvec()
\* differs from nvec(); with both equal to nvec() it returns with
\* self[i] = old self[i] + a[i]*y[i] for every i, y being self included.
C2_AxpyArrChecked ==
    [][IsCall("axpy_arr") =>
        IF last'.n # nvec(Self) \/ nvec(Other) # nvec(Self)
        THEN last'.res = "abort" /\ Untouched(Self)
        ELSE /\ last'.res = "ok"
             /\ mv' = mv
             /\ \A i \in 1 .. nvec(Self) :
                  heap'[mv[Self][i]] =
                      heap[mv[Self][i]] + last'.arr[i] * heap[mv[Other][i]]]_vars

\* C2, for the C++ method alone (an Array whose size is its length).
C2_CoreOnly ==
    [][IsCall("axpy_arr") /\ last'.via = "core" =>
        IF last'.n # nvec(Self) \/ nvec(Other) # nvec(Self)
        THEN last'.res = "abort" /\ Untouched(Self)
        ELSE /\ last'.res = "ok"
             /\ mv' = mv
             /\ \A i \in 1 .. nvec(Self) :
                  heap'[mv[Self][i]] =
                      heap[mv[Self][i]] + last'.arr[i] * heap[mv[Other][i]]]_vars

Constructors == {"MultiVector", "MultiVector_v_n", "MultiVector_copy"}
SameSizes == \A X \in MVs : Len(mv'[X]) = Len(mv[X])

\* C3 as stated: apart from construction and setSizeFromVector, no call
\* changes nvec() of any MultiVector; swap is among those that do not.
C3_OnlyResizeChangesN ==
    [][~(last'.op \in Constructors \cup {"setSizeFromVector"}) => SameSizes]_vars

\* C3 as amended: apart from construction, setSizeFromVector and swap, no
\* call changes nvec() of any MultiVector; swap exchanges the two nvec().
C3_SwapExchangesN ==
    [][/\ ~(last'.op \in Constructors \cup {"setSizeFromVector", "swap"})
          => SameSizes
       /\ IsCall("swap")
          => /\ Len(mv'[Self]) = Len(mv[Other])
             /\ Len(mv'[Other]) = Len(mv[Self])
             /\ \A X \in MVs \ {Self, Other} : Len(mv'[X]) = Len(mv[X])]_vars

\* A with one vector and B with two have been swapped.
C3_Witness ==
    /\ last.op = "swap" /\ last.self = "A" /\ last.other = "B"
    /\ nvec("A") = 2 /\ nvec("B") = 1

RECURSIVE WSum(_, _, _, _, _)
\* alpha[lo]*self[lo] + ... + alpha[hi]*self[hi], on the values in h
WSum(h, slots, alpha, lo, hi) ==
    IF lo > hi THEN 0
    ELSE alpha[lo] * h[slots[lo]] + WSum(h, slots, alpha, lo + 1, hi)

OneHot(alpha, k) == \A i \in 1 .. Len(alpha) : alpha[i] = (IF i = k THEN 1 ELSE 0)

\* C4 as stated: reduce(v, alpha) leaves v = old v + sum alpha[i]*self[i]
\* and every slot of self as it was, whatever v is, a handle on a slot of
\* self included.
C4_ReduceAnyTarget ==
    [][IsCall("reduce") =>
        \A v \in last'.v :
            /\ heap'[v] = heap[v] + WSum(heap, mv[Self], last'.arr, 1, nvec(Self))
            /\ \A o \in Range(mv[Self]) : heap'[o] = heap[o]]_vars

\* C4 as amended: for v that is no slot of self, reduce leaves
\* v = old v + sum alpha[i]*self[i] and every slot as it was.  For v a
\* handle on slot k of self, that slot (and no other) is changed, to
\* (old v + sum_{i<k} alpha[i]*self[i]) * (1 + alpha[k]) + sum_{i>k} alpha[i]*self[i].
\* Either way alpha one-hot at k gives v = old v + old self[k].
C4_ReduceDisjointTarget ==
    [][IsCall("reduce") =>
        LET s == mv[Self]
            n == Len(s)
            alpha == last'.arr
        IN \A v \in last'.v :
            /\ mv' = mv
            /\ \A o \in DOMAIN heap \ {v} : heap'[o] = heap[o]
            /\ v \notin Range(s)
               => heap'[v] = heap[v] + WSum(heap, s, alpha, 1, n)
            /\ v \in Range(s)
               => LET k == Pos(s, v) IN
                  heap'[v] = (heap[v] + WSum(heap, s, alpha, 1, k - 1))
                                 * (1 + alpha[k])
                             + WSum(heap, s, alpha, k + 1, n)
            /\ \A k \in 1 .. n : OneHot(alpha, k) => heap'[v] = heap[v] + heap[s[k]]]_vars

\* reduce into a handle on the second of two slots has run.
C4_Witness ==
    /\ last.op = "reduce" /\ last.self = "A" /\ nvec("A") = 2
    /\ last.v = {mv["A"][2]}
    /\ last.arr = <<1, -1>>
    /\ heap[mv["A"][1]] = 1 /\ heap[mv["A"][2]] = 0

\* C5 as stated: after axpy(a, y) every slot is its old value plus a times
\* the old y, whatever y is, a handle on a slot of self included.
C5_AxpyAnyY ==
    [][IsCall("axpy") =>
        \A y \in last'.v : \A i \in 1 .. nvec(Self) :
            heap'[mv[Self][i]] = heap[mv[Self][i]] + last'.arr[1] * heap[y]]_vars

\* C5 as amended: for y that is no slot of self, every slot is its old
\* value plus a times y, and y is as it was.  For y a handle on slot k,
\* slots up to and including k get a times the old y, and the slots after
\* k get a times the y that slot k now holds, (1 + a) times the old y.
C5_AxpyDisjointY ==
    [][IsCall("axpy") =>
        LET s == mv[Self]
            a == last'.arr[1]
        IN \A y \in last'.v :
            /\ mv' = mv
            /\ \A o \in DOMAIN heap \ Range(s) : heap'[o] = heap[o]
            /\ y \notin Range(s)
               => \A i \in 1 .. Len(s) : heap'[s[i]] = heap[s[i]] + a * heap[y]
            /\ y \in Range(s)
               => \A i \in 1 .. Len(s) :
                    heap'[s[i]] =
                        IF i <= Pos(s, y)
                        THEN heap[s[i]] + a * heap[y]
                        ELSE heap[s[i]] + a * ((1 + a) * heap[y])]_vars

\* axpy with y a handle on the first of two slots has run.
C5_Witness ==
    /\ last.op = "axpy" /\ last.self = "A" /\ nvec("A") = 2
    /\ last.v = {mv["A"][1]} /\ last.arr = <<-1>>
    /\ heap[mv["A"][1]] = 0 /\ heap[mv["A"][2]] = 1

Mutators == {"axpy", "axpy_arr", "scale_k", "scale_arr", "zero",
             "setSizeFromVector"}

\* C6: a copy-constructed MultiVector has the original's N and, slot by
\* slot, its values, in vector objects of its own; a mutation of one of the
\* two (axpy, scale, zero, setSizeFromVector, a write through a handle)
\* leaves the other's N, objects and values as they were.
C6_CopyIsIndependent ==
    [][/\ IsCall("MultiVector_copy")
          => /\ Len(mv'[Self]) = Len(mv[Other])
             /\ NewVals(Self) = OldVals(Other)
             /\ Range(mv'[Self]) \cap Range(mv'[Other]) = {}
             /\ Range(mv'[Self]) \cap DOMAIN heap = {}
             /\ Untouched(Other)
       /\ last'.op \in Mutators
          => \A X \in MVs \ {Self} : Untouched(X)
       /\ IsCall("handle_write")
          => \A X \in MVs : hnd \cap Range(mv[X]) = {} => Untouched(X)]_vars

\* B was copied from A, and B's second slot then written through a handle.
C6_Witness ==
    /\ last.op = "handle_write"
    /\ nvec("A") = 2 /\ nvec("B") = 2
    /\ hnd = {mv["B"][2]}
    /\ heap[mv["A"][1]] = 1 /\ heap[mv["B"][1]] = 1
    /\ heap[mv["A"][2]] = -1 /\ heap[mv["B"][2]] = 1

\* C7: A.swap(B) makes A's slots the objects B's slots were, in order, and
\* B's those of A, for any sizes; no vector object is made, changed or
\* dropped; the caller's handle refers to the object it referred to, now
\* a slot of the other MultiVector; a second swap restores both, and
\* A.swap(A) changes nothing.
C7_SwapExchangesObjects ==
    [][IsCall("swap") =>
        /\ mv'[Self] = mv[Other]
        /\ mv'[Other] = mv[Self]
        /\ \A X \in MVs \ {Self, Other} : mv'[X] = mv[X]
        /\ heap' = heap
        /\ hnd' = hnd
        /\ Self # Other /\ hnd \subseteq Range(mv[Self])
           => hnd \subseteq Range(mv'[Other])
        /\ SwapSlots(mv', Self, Other) = mv
        /\ store'[Self] = store[Other] /\ store'[Other] = store[Self]
        /\ Self = Other => mv' = mv /\ store' = store]_vars

\* A (two vectors) and B (none) have been swapped while the caller held a
\* handle on A's second vector, which is now B's.
C7_Witness ==
    /\ last.op = "swap" /\ last.self = "A" /\ last.other = "B"
    /\ nvec("A") = 0 /\ nvec("B") = 2
    /\ hnd = {mv["B"][2]}
    /\ heap[mv["B"][1]] = 1 /\ heap[mv["B"][2]] = -1

Injective(seq) == \A i, j \in 1 .. Len(seq) : seq[i] = seq[j] => i = j

\* C8: MultiVector(v, N) and setSizeFromVector(v, N), from any prior state,
\* leave nvec() = N, every slot a zero vector in an object that did not
\* exist before the call (so no slot keeps an old value or an old object),
\* and v as it was.
C8_ResizeIsFullReset ==
    [][last'.op \in {"MultiVector_v_n", "setSizeFromVector"} =>
        /\ Len(mv'[Self]) = last'.n
        /\ Injective(mv'[Self])
        /\ \A i \in 1 .. Len(mv'[Self]) :
            /\ heap'[mv'[Self][i]] = 0
            /\ mv'[Self][i] \notin DOMAIN heap
        /\ \A v \in last'.v : v \in DOMAIN heap' /\ heap'[v] = heap[v]
        /\ \A X \in MVs \ {Self} : Untouched(X)]_vars

\* setSizeFromVector(v, 2) has run on A with v a non-zero vector that the
\* caller holds by a handle and that is no slot any more.
C8_Witness ==
    /\ last.op = "setSizeFromVector" /\ last.self = "A" /\ last.n = 2
    /\ last.v = hnd
    /\ \E o \in hnd : heap[o] = 1 /\ o \notin Slots(mv)
    /\ nvec("A") = 2

\* <self[i], other[j]> on the current heap, i and j 0-based
Gram(X, Y, i, j) == VecInner(heap[Index(mv[X], i)], heap[Index(mv[Y], j)])
\* How often the pair {i, j} was handed to inner().
Evaluations(i, j) ==
    Cardinality({k \in 1 .. Len(calls) : calls[k] \in {<<i, j>>, <<j, i>>}})

DotSelfRan == last.op = "dot_self" \/ (last.op = "dot_mv" /\ last.res = "dot_self")

\* C9: dot_self writes all N*N entries, the diagonal being <mv[i],mv[i]>
\* and entries i+N*j and j+N*i both <mv[i],mv[j]>, with one evaluation of
\* inner() for each unordered pair {i,j}.
C9_DotSelfSymmetric ==
    DotSelfRan =>
        LET X == last.self
            N == nvec(X)
        IN /\ Len(out) = N * N
           /\ \A p \in 1 .. N * N : Len(out[p]) = 1
           /\ \A i \in 0 .. N - 1 : out[i + N * i + 1] = <<Gram(X, X, i, i)>>
           /\ \A i, j \in 0 .. N - 1 :
                /\ out[i + N * j + 1] = out[j + N * i + 1]
                /\ out[i + N * j + 1] = <<Gram(X, X, i, j)>>
                /\ Evaluations(i, j) = 1
           /\ 2 * Len(calls) = N * (N + 1)

\* dot_self has run on two vectors whose inner product is not zero.
C9_Witness ==
    /\ last.op = "dot_self" /\ last.self = "A" /\ nvec("A") = 2
    /\ out[2] = <<-1>> /\ out[3] = <<-1>>
    /\ out[1] = <<1>> /\ out[4] = <<1>>

\* C10: A.dot(A) takes the dot_self path and its buffer is the one the
\* double loop would fill, out[i*N+j] = <A[i],A[j]>; the dot_self path is
\* taken only for other being self or both being empty; for two distinct
\* MultiVectors the buffer is out[i*size2+j] = <self[i],other[j]>.
C10_DotPaths ==
    last.op = "dot_mv" =>
        LET X == last.self
            Y == last.other
            N1 == nvec(X)
            N2 == nvec(Y)
        IN /\ X = Y => last.res = "dot_self"
           /\ X = Y => out = DotGeneral(heap, mv[X], mv[X], Buffer(N1 * N1)).m
           /\ last.res = "dot_self" => X = Y \/ (N1 = 0 /\ N2 = 0)
           /\ Len(out) = N1 * N2
           /\ \A i \in 0 .. N1 - 1 : \A j \in 0 .. N2 - 1 :
                out[i * N2 + j + 1] = <<Gram(X, Y, i, j)>>

\* A.dot(A) has run on two vectors whose inner product is not zero.
C10_Witness ==
    /\ last.op = "dot_mv" /\ last.self = "A" /\ last.other = "A"
    /\ last.res = "dot_self" /\ nvec("A") = 2
    /\ out[2] = <<-1>> /\ out[1] = <<1>>

============================================================================
